---- MODULE Spec2Model ----
(***************************************************************************)
(* The three pages of the course application (landing redirect, dashboard, *)
(* course detail) as one state machine.  A page's async handlers are cut   *)
(* at their awaits: every pending invocation is a record in the bag `ops`, *)
(* and one action runs one continuation (from one await to the next).      *)
(* The backend is the session flag and the enrollments table; the courses  *)
(* table is never written by the application and is a constant.            *)
(*                                                                         *)
(* Requests that race for the same row (updateProgress) are cut once more, *)
(* between the backend executing the write and the response arriving, so   *)
(* that writes and responses can be reordered.  An invocation started by a *)
(* page that has since unmounted keeps running: its toasts, navigations    *)
(* and writes still happen, its setState calls are discarded.              *)
(*                                                                         *)
(* Environment: the user opens any page by URL, clicks only what is        *)
(* rendered, and leaves a page by a click only when nothing is pending     *)
(* (Settled); MaxRows bounds the enrollment rows and MaxClicks the number  *)
(* of "Mark Progress" clicks of a behaviour.                               *)
(***************************************************************************)
EXTENDS Integers, Sequences, FiniteSets, Bags, TLC

\* ---------------------------------------------------------------- bounds
NumCourses == 2
MaxRows == 2
MaxClicks == 2

\* ------------------------------------------------------ program constants
ProgressStep == 10
ProgressCap == 100

VARIABLES
    route,          \* the router's location: [path, id]
    session,        \* backend: TRUE iff the auth provider holds a session
    dbEnroll,       \* backend: the enrollments rows visible to the user, in table order
    courses,        \* Dashboard useState: fetched course rows
    enrollments,    \* Dashboard useState: fetched enrollment rows
    loading,        \* Dashboard useState: loading flag
    course,         \* Course useState: fetched course (0 is null)
    progress,       \* Course useState: displayed progress
    courseLoading,  \* Course useState: loading flag
    ops,            \* bag of pending async invocations (promises awaiting a response)
    toast,          \* the notification shown last
    indexNavs,      \* number of navigate() calls made by the landing page
    clicks          \* number of "Mark Progress" clicks so far

vars == <<route, session, dbEnroll, courses, enrollments, loading,
          course, progress, courseLoading, ops, toast, indexNavs, clicks>>

dashState == <<courses, enrollments, loading>>
courseState == <<course, progress, courseLoading>>

\* ---------------------------------------------------------------- backend
CourseIds == 1..NumCourses
\* ids a /course/:id URL can carry: the existing courses and one that matches no row
UrlIds == 1..(NumCourses + 1)
\* rows of the courses table, in table order (a course row is modelled by its id)
DbCourses == [i \in 1..NumCourses |-> i]
\* progress scalars an enrollment row can hold before the page is opened
StartProgress == {0, 95, 105}
\* progress of a freshly inserted row: the insert names course_id and user_id only
DefaultProgress == 0

Row(c, p) == [course_id |-> c, progress |-> p]
InitialTables == {<<>>} \cup {<<Row(1, p)>> : p \in StartProgress}

\* error.message of a failed request, one message per request
SessionError == "getSession: Failed to fetch"
CoursesError == "courses: Failed to fetch"
EnrollmentsError == "enrollments: Failed to fetch"
InsertError == "insert: Failed to fetch"
UpdateError == "update: Failed to fetch"
\* error.message of .single() / .maybeSingle() on a wrong number of rows
RowCountError == "JSON object requested, multiple (or no) rows returned"
Response(d, e) == [data |-> d, error |-> e]

\* what a request can come back with: the backend's answer or a transport failure
Answers(resp, failure) == {resp, Response(resp.data, failure)}

RECURSIVE filter(_, _)
\* .eq("course_id", id): the rows whose course_id is id, in order
filter(rows, id) ==
    IF rows = <<>> THEN <<>>
    ELSE IF Head(rows).course_id = id
         THEN <<Head(rows)>> \o filter(Tail(rows), id)
         ELSE filter(Tail(rows), id)

\* courses.select("*").eq("id", id): the course rows with that id
selectCourse(id) == IF id \in CourseIds THEN <<id>> ELSE <<>>

\* .single(): exactly one row is the data, anything else is an error (data null = 0)
single(rows) ==
    IF Len(rows) = 1 THEN Response(rows[1], "") ELSE Response(0, RowCountError)

\* .maybeSingle(): no row is null data without error, several rows are an error
maybeSingle(rows) ==
    IF Len(rows) = 0 THEN Response(<<>>, "")
    ELSE IF Len(rows) = 1 THEN Response(<<rows[1]>>, "")
    ELSE Response(<<>>, RowCountError)

\* auth.getSession(): resolves with the session or with null, or rejects
getSession == {IF session THEN "session" ELSE "none", "reject"}

\* .update({progress}).eq("course_id", id).eq("user_id", uid)
update(rows, id, p) ==
    [i \in 1..Len(rows) |-> IF rows[i].course_id = id THEN Row(id, p) ELSE rows[i]]

\* .insert({course_id, user_id})
insert(rows, c) == Append(rows, Row(c, DefaultProgress))

\* ------------------------------------------------------ pending invocations
Op(k, l, s, r, i, a, d) ==
    [kind |-> k, live |-> l, stage |-> s, res |-> r, id |-> i, arg |-> a, data |-> d]

Pending == BagToSet(ops)
Add(b, o) == b (+) SetToBag({o})
Remove(b, o) == b (-) SetToBag({o})
Size(b) == BagCardinality(b)
\* the user leaves a page by a click only once nothing is pending on it
Settled == Size(ops) = 0

\* an invocation whose component has unmounted: its setState calls are discarded
Unmounted(o) == [o EXCEPT !.live = FALSE]
Stale(b) ==
    LET S == {Unmounted(o) : o \in BagToSet(b)}
    IN  [s \in S |-> CopiesIn(s, b) + CopiesIn([s EXCEPT !.live = TRUE], b)]

Path(p, i) == [path |-> p, id |-> i]
NoToast == [title |-> "", description |-> ""]
Toast(t, d) == [title |-> t, description |-> d]

\* fetchData(): both reads are issued at once (Promise.all)
FetchDataOp(l) == Op("fetchData", l, "enrollments", "pending", 0, 0, <<>>)

\* the useEffect of the page mounted at a path
useEffect(p, i) ==
    IF p = "/" THEN SetToBag({Op("Index.checkUser", TRUE, "getSession", "", 0, 0, <<>>)})
    ELSE IF p = "/dashboard"
    THEN SetToBag({Op("Dashboard.checkUser", TRUE, "getSession", "", 0, 0, <<>>),
                   FetchDataOp(TRUE)})
    ELSE IF p = "/course"
    THEN SetToBag({Op("Course.checkUser", TRUE, "getSession", "", 0, 0, <<>>),
                   Op("fetchCourse", TRUE, "course", "", i, 0, <<>>)})
    ELSE EmptyBag

\* the useState initial values of both stateful pages
InitialState ==
    /\ courses = <<>>
    /\ enrollments = <<>>
    /\ loading = TRUE
    /\ course = 0
    /\ progress = 0
    /\ courseLoading = TRUE

\* a freshly mounted page starts from its useState initial values; the page
\* that unmounted loses its state
Mounted ==
    /\ courses' = <<>>
    /\ enrollments' = <<>>
    /\ loading' = TRUE
    /\ course' = 0
    /\ progress' = 0
    /\ courseLoading' = TRUE

\* navigate(path) called with `rest` still pending: the same location keeps the
\* mounted page; another one unmounts it and mounts the target page
navigate(rest, p, i) ==
    IF route = Path(p, i)
    THEN /\ ops' = rest
         /\ UNCHANGED <<route, dashState, courseState>>
    ELSE /\ route' = Path(p, i)
         /\ ops' = Stale(rest) (+) useEffect(p, i)
         /\ Mounted

Init ==
    /\ route \in {Path("/", 0), Path("/dashboard", 0)} \cup {Path("/course", i) : i \in UrlIds}
    /\ session \in BOOLEAN
    /\ dbEnroll \in InitialTables
    /\ InitialState
    /\ ops = useEffect(route.path, route.id)
    /\ toast = NoToast
    /\ indexNavs = 0
    /\ clicks = 0

\* ------------------------------------------------------------ Index page
\* a faulty landing page: the two targets are swapped
Index_checkUser_swapped(op) ==
    /\ op.kind = "Index.checkUser"
    /\ \E s \in getSession :
         IF s = "reject"
         THEN /\ ops' = Remove(ops, op)
              /\ UNCHANGED <<route, dashState, courseState, indexNavs>>
         ELSE /\ IF s = "session"
                 THEN navigate(Remove(ops, op), "/auth", 0)
                 ELSE navigate(Remove(ops, op), "/dashboard", 0)
              /\ indexNavs' = indexNavs + 1
    /\ UNCHANGED <<session, dbEnroll, toast, clicks>>

Index_checkUser(op) ==
    /\ op.kind = "Index.checkUser"
    /\ \E s \in getSession :
         IF s = "reject"
         THEN /\ ops' = Remove(ops, op)
              /\ UNCHANGED <<route, dashState, courseState, indexNavs, clicks>>
         ELSE /\ IF s = "session"
                 THEN navigate(Remove(ops, op), "/dashboard", 0)
                 ELSE navigate(Remove(ops, op), "/auth", 0)
              /\ indexNavs' = indexNavs + 1
    /\ UNCHANGED <<session, dbEnroll, toast, clicks>>

\* -------------------------------------------------------- Dashboard page
Dashboard_checkUser(op) ==
    /\ op.kind = "Dashboard.checkUser"
    /\ \E s \in getSession :
         IF s = "none"
         THEN navigate(Remove(ops, op), "/auth", 0)
         ELSE /\ ops' = Remove(ops, op)
              /\ UNCHANGED <<route, dashState, courseState>>
    /\ UNCHANGED <<session, dbEnroll, toast, indexNavs, clicks>>

\* the enrollments read of fetchData is answered
selectEnrollments(op) ==
    /\ op.kind = "fetchData"
    /\ op.res = "pending"
    /\ \E r \in {"ok", "error"} :
         ops' = Add(Remove(ops, op),
                    [op EXCEPT !.res = r, !.data = IF r = "ok" THEN dbEnroll ELSE <<>>])
    /\ UNCHANGED <<route, session, dbEnroll, dashState, courseState, toast, indexNavs, clicks>>

\* a faulty fetchData: the courses are stored before the enrollments error is looked at
fetchData_partial(op) ==
    /\ op.kind = "fetchData"
    /\ op.res # "pending"
    /\ ops' = Remove(ops, op)
    /\ \E coursesResponse \in Answers(Response(DbCourses, ""), CoursesError) :
         /\ courses' = IF op.live /\ coursesResponse.error = "" THEN coursesResponse.data
                       ELSE courses
         /\ IF coursesResponse.error # ""
            THEN /\ toast' = Toast("Error", coursesResponse.error)
                 /\ enrollments' = enrollments
            ELSE IF op.res = "error"
            THEN /\ toast' = Toast("Error", EnrollmentsError)
                 /\ enrollments' = enrollments
            ELSE /\ toast' = toast
                 /\ enrollments' = IF op.live THEN op.data ELSE enrollments
    /\ loading' = IF op.live THEN FALSE ELSE loading
    /\ UNCHANGED <<route, session, dbEnroll, courseState, indexNavs, clicks>>

\* fetchData after Promise.all, with the courses response that arrived: throw on
\* either error, else set both lists; finally clear the loading flag
fetchData(op) ==
    /\ op.kind = "fetchData"
    /\ op.res # "pending"
    /\ ops' = Remove(ops, op)
    /\ \E coursesResponse \in Answers(Response(DbCourses, ""), CoursesError) :
         IF coursesResponse.error # ""
         THEN /\ toast' = Toast("Error", coursesResponse.error)
              /\ UNCHANGED <<courses, enrollments>>
         ELSE IF op.res = "error"
         THEN /\ toast' = Toast("Error", EnrollmentsError)
              /\ UNCHANGED <<courses, enrollments>>
         ELSE /\ toast' = toast
              /\ courses' = IF op.live THEN coursesResponse.data ELSE courses
              /\ enrollments' = IF op.live THEN op.data ELSE enrollments
    /\ loading' = IF op.live THEN FALSE ELSE loading
    /\ UNCHANGED <<route, session, dbEnroll, courseState, indexNavs, clicks>>

\* enrollments.some((e) => e.course_id === courseId), scanning in order
RECURSIVE some(_, _)
some(rows, courseId) ==
    IF rows = <<>> THEN FALSE
    ELSE IF Head(rows).course_id = courseId THEN TRUE
    ELSE some(Tail(rows), courseId)

\* a faulty isEnrolled: looks at the first fetched row only
isEnrolled_first(courseId) ==
    enrollments # <<>> /\ Head(enrollments).course_id = courseId

isEnrolled(courseId) == some(enrollments, courseId)

\* enrollments.find((e) => e.course_id === courseId): the first match, <<>> if none
RECURSIVE find(_, _)
find(rows, courseId) ==
    IF rows = <<>> THEN <<>>
    ELSE IF Head(rows).course_id = courseId THEN <<Head(rows)>>
    ELSE find(Tail(rows), courseId)

\* x?.progress || 0 for the optional row x (a sequence of length 0 or 1)
progressOrZero(x) == IF x = <<>> THEN 0 ELSE x[1].progress

\* a faulty getProgress: takes the first fetched row whatever its course
getProgress_anyCourse(courseId) ==
    IF enrollments = <<>> THEN 0 ELSE Head(enrollments).progress

getProgress(courseId) == progressOrZero(find(enrollments, courseId))

\* the section list of a fetched course row: select("*") on courses returns the
\* columns of interface Course, which holds no sections
sections(c) == <<>>

\* the page's JSX: what the dashboard shows
DashboardRendered == route.path = "/dashboard" /\ ~loading
Cards == {courses[i] : i \in 1..Len(courses)}
\* the card of a course: the progress block with its button, or the enroll button
Card(c) ==
    IF isEnrolled(c)
    THEN [button |-> "Continue Learning", progress |-> getProgress(c)]
    ELSE [button |-> "Enroll Now", progress |-> -1]

\* handleEnroll invocations that have not yet been answered by the backend
Enrolling == {o \in Pending : o.kind = "handleEnroll"}
RECURSIVE Copies(_, _)
Copies(b, S) ==
    IF S = {} THEN 0
    ELSE LET o == CHOOSE x \in S : TRUE IN CopiesIn(o, b) + Copies(b, S \ {o})

\* onClick of "Enroll Now": handleEnroll(course.id) runs up to its first await
EnrollNow(c) ==
    /\ DashboardRendered
    /\ c \in Cards
    /\ Card(c).button = "Enroll Now"
    /\ Len(dbEnroll) + Copies(ops, Enrolling) < MaxRows
    /\ ops' = Add(ops, Op("handleEnroll", TRUE, "getSession", "", c, 0, <<>>))
    /\ UNCHANGED <<route, session, dbEnroll, dashState, courseState, toast, indexNavs, clicks>>

\* handleEnroll after getSession: no session returns with a toast, else the insert is sent
handleEnroll_getSession(op) ==
    /\ op.kind = "handleEnroll"
    /\ op.stage = "getSession"
    /\ \E s \in getSession :
         IF s = "session"
         THEN /\ ops' = Add(Remove(ops, op), [op EXCEPT !.stage = "insert"])
              /\ toast' = toast
         ELSE /\ ops' = Remove(ops, op)
              /\ toast' = IF s = "none"
                          THEN Toast("Error", "You must be logged in to enroll in a course")
                          ELSE Toast("Error", SessionError)
    /\ UNCHANGED <<route, session, dbEnroll, dashState, courseState, indexNavs, clicks>>

\* a faulty handleEnroll: the list is patched locally instead of refetched
handleEnroll_insert_optimistic(op) ==
    /\ op.kind = "handleEnroll"
    /\ op.stage = "insert"
    /\ \E r \in {"ok", "error"} :
         IF r = "ok"
         THEN /\ dbEnroll' = insert(dbEnroll, op.id)
              /\ toast' = Toast("Success!", "Successfully enrolled in the course.")
              /\ enrollments' = IF op.live THEN Append(enrollments, Row(op.id, DefaultProgress))
                                ELSE enrollments
         ELSE /\ dbEnroll' = dbEnroll
              /\ toast' = Toast("Error", InsertError)
              /\ enrollments' = enrollments
    /\ ops' = Remove(ops, op)
    /\ UNCHANGED <<route, session, courses, loading, courseState, indexNavs, clicks>>

\* handleEnroll after the insert: throw on error, else toast and fetchData()
handleEnroll_insert(op) ==
    /\ op.kind = "handleEnroll"
    /\ op.stage = "insert"
    /\ \E r \in {"ok", "error"} :
         IF r = "ok"
         THEN /\ dbEnroll' = insert(dbEnroll, op.id)
              /\ toast' = Toast("Success!", "Successfully enrolled in the course.")
              /\ ops' = Add(Remove(ops, op), FetchDataOp(op.live))
         ELSE /\ dbEnroll' = dbEnroll
              /\ toast' = Toast("Error", InsertError)
              /\ ops' = Remove(ops, op)
    /\ UNCHANGED <<route, session, dashState, courseState, indexNavs, clicks>>

\* onClick of "Continue Learning": navigate(`/course/${course.id}`)
ContinueLearning(c) ==
    /\ DashboardRendered
    /\ c \in Cards
    /\ Card(c).button = "Continue Learning"
    /\ Settled
    /\ navigate(ops, "/course", c)
    /\ UNCHANGED <<session, dbEnroll, toast, indexNavs, clicks>>

\* onClick of "Sign Out" up to its await
SignOut ==
    /\ DashboardRendered
    /\ Settled
    /\ ops' = Add(ops, Op("signOut", TRUE, "signOut", "", 0, 0, <<>>))
    /\ UNCHANGED <<route, session, dbEnroll, dashState, courseState, toast, indexNavs, clicks>>

\* "Sign Out" after auth.signOut(): the session is gone unless the call failed
signOut(op) ==
    /\ op.kind = "signOut"
    /\ \E ok \in BOOLEAN : session' = (session /\ ~ok)
    /\ navigate(Remove(ops, op), "/auth", 0)
    /\ UNCHANGED <<dbEnroll, toast, indexNavs, clicks>>

\* ----------------------------------------------------------- Course page
Course_checkUser(op) ==
    /\ op.kind = "Course.checkUser"
    /\ \E s \in getSession :
         IF s = "none"
         THEN navigate(Remove(ops, op), "/auth", 0)
         ELSE /\ ops' = Remove(ops, op)
              /\ UNCHANGED <<route, dashState, courseState>>
    /\ UNCHANGED <<session, dbEnroll, toast, indexNavs, clicks>>

\* fetchCourse after the course read
fetchCourse_course(op) ==
    /\ op.kind = "fetchCourse"
    /\ op.stage = "course"
    /\ \E resp \in Answers(single(selectCourse(op.id)), CoursesError) :
         IF resp.error # ""
         THEN /\ toast' = Toast("Error", resp.error)
              /\ navigate(Remove(ops, op), "/dashboard", 0)
         ELSE IF resp.data = 0
         THEN /\ toast' = Toast("Error", "Course not found")
              /\ navigate(Remove(ops, op), "/dashboard", 0)
         ELSE /\ toast' = toast
              /\ ops' = Add(Remove(ops, op), [op EXCEPT !.stage = "enrollment", !.arg = resp.data])
              /\ UNCHANGED <<route, dashState, courseState>>
    /\ UNCHANGED <<session, dbEnroll, indexNavs, clicks>>

\* fetchCourse after the enrollment read
fetchCourse_enrollment(op) ==
    /\ op.kind = "fetchCourse"
    /\ op.stage = "enrollment"
    /\ \E resp \in Answers(maybeSingle(filter(dbEnroll, op.id)), EnrollmentsError) :
         IF resp.error # ""
         THEN /\ toast' = Toast("Error", resp.error)
              /\ navigate(Remove(ops, op), "/dashboard", 0)
         ELSE /\ toast' = toast
              /\ ops' = Remove(ops, op)
              /\ course' = IF op.live THEN op.arg ELSE course
              /\ progress' = IF op.live THEN progressOrZero(resp.data) ELSE progress
              /\ courseLoading' = IF op.live THEN FALSE ELSE courseLoading
              /\ UNCHANGED <<route, dashState>>
    /\ UNCHANGED <<session, dbEnroll, indexNavs, clicks>>

CourseRendered == route.path = "/course" /\ ~courseLoading /\ course # 0

Min(a, b) == IF a < b THEN a ELSE b
\* a faulty bump: the cap is forgotten
NextProgress_unclamped(p) == p + ProgressStep

\* the argument of the "Mark Progress" click
NextProgress(p) == Min(p + ProgressStep, ProgressCap)

\* onClick of "Mark Progress": updateProgress(...) runs up to its first await
MarkProgress ==
    /\ CourseRendered
    /\ ops' = Add(ops, Op("updateProgress", TRUE, "getSession", "", route.id,
                          NextProgress(progress), <<>>))
    /\ clicks < MaxClicks
    /\ clicks' = clicks + 1
    /\ UNCHANGED <<route, session, dbEnroll, dashState, courseState, toast, indexNavs>>

\* updateProgress after getSession: no session returns with a toast, else the update is sent
updateProgress_getSession(op) ==
    /\ op.kind = "updateProgress"
    /\ op.stage = "getSession"
    /\ \E s \in getSession :
         IF s = "session"
         THEN /\ ops' = Add(Remove(ops, op), [op EXCEPT !.stage = "update"])
              /\ toast' = toast
         ELSE /\ ops' = Remove(ops, op)
              /\ toast' = IF s = "none"
                          THEN Toast("Error", "You must be logged in to update progress")
                          ELSE Toast("Error", SessionError)
    /\ UNCHANGED <<route, session, dbEnroll, dashState, courseState, indexNavs, clicks>>

\* the backend executes the update (any number of rows may match) or fails it
updateProgress_update(op) ==
    /\ op.kind = "updateProgress"
    /\ op.stage = "update"
    /\ \E r \in {"ok", "error"} :
         /\ dbEnroll' = IF r = "ok" THEN update(dbEnroll, op.id, op.arg) ELSE dbEnroll
         /\ ops' = Add(Remove(ops, op), [op EXCEPT !.stage = "response", !.res = r])
    /\ UNCHANGED <<route, session, dashState, courseState, toast, indexNavs, clicks>>

\* a faulty updateProgress: the displayed progress is set before the error is looked at
updateProgress_optimistic(op) ==
    /\ op.kind = "updateProgress"
    /\ op.stage = "response"
    /\ ops' = Remove(ops, op)
    /\ progress' = IF op.live THEN op.arg ELSE progress
    /\ toast' = IF op.res = "error" THEN Toast("Error", UpdateError)
                ELSE Toast("Success", "Progress updated successfully")
    /\ UNCHANGED <<route, session, dbEnroll, dashState, course, courseLoading, indexNavs, clicks>>

\* updateProgress after the update's response: throw on error, else setProgress and toast
updateProgress(op) ==
    /\ op.kind = "updateProgress"
    /\ op.stage = "response"
    /\ ops' = Remove(ops, op)
    /\ IF op.res = "error"
       THEN /\ toast' = Toast("Error", UpdateError)
            /\ progress' = progress
       ELSE /\ progress' = IF op.live THEN op.arg ELSE progress
            /\ toast' = Toast("Success", "Progress updated successfully")
    /\ UNCHANGED <<route, session, dbEnroll, dashState, course, courseLoading, indexNavs, clicks>>

\* onClick of "Back to Dashboard"
BackToDashboard ==
    /\ CourseRendered
    /\ Settled
    /\ navigate(ops, "/dashboard", 0)
    /\ UNCHANGED <<session, dbEnroll, toast, indexNavs, clicks>>

Next ==
    \/ \E op \in Pending : Index_checkUser(op)
    \/ \E op \in Pending : Dashboard_checkUser(op)
    \/ \E op \in Pending : selectEnrollments(op)
    \/ \E op \in Pending : fetchData(op)
    \/ \E c \in CourseIds : EnrollNow(c)
    \/ \E op \in Pending : handleEnroll_getSession(op)
    \/ \E op \in Pending : handleEnroll_insert(op)
    \/ \E c \in CourseIds : ContinueLearning(c)
    \/ SignOut
    \/ \E op \in Pending : signOut(op)
    \/ \E op \in Pending : Course_checkUser(op)
    \/ \E op \in Pending : fetchCourse_course(op)
    \/ \E op \in Pending : fetchCourse_enrollment(op)
    \/ MarkProgress
    \/ \E op \in Pending : updateProgress_getSession(op)
    \/ \E op \in Pending : updateProgress_update(op)
    \/ \E op \in Pending : updateProgress(op)
    \/ BackToDashboard

Spec == Init /\ [][Next]_vars

\* ================================================================ claims
UpdatesPending == {o \in Pending : o.kind = "updateProgress"}
\* the number of requests of a kind and stage that are in flight in a bag
InFlight(b, k, st) == Copies(b, {o \in BagToSet(b) : o.kind = k /\ o.stage = st})
Capped(p) == IF p + 10 < 100 THEN p + 10 ELSE 100

\* C1: every "Mark Progress" click asks for min(progress + 10, 100) of the progress
\* the page holds; no pending request carries more than 100, the backend update
\* writes exactly the requested value, and the progress updateProgress sets locally
\* is the requested value, so neither exceeds 100 whatever the starting value.
C1_Step ==
    /\ clicks' # clicks =>
         ops' = Add(ops, Op("updateProgress", TRUE, "getSession", "", route.id,
                            Capped(progress), <<>>))
    /\ \A op \in Pending :
         /\ (updateProgress_update(op) /\ dbEnroll' # dbEnroll) =>
              /\ op.arg <= 100
              /\ \A i \in 1..Len(dbEnroll') :
                   IF dbEnroll[i].course_id = op.id
                   THEN dbEnroll'[i].progress = op.arg
                   ELSE dbEnroll'[i] = dbEnroll[i]
         /\ (updateProgress(op) /\ progress' # progress) =>
              progress' = op.arg /\ progress' <= 100
C1_Capped ==
    /\ [](\A o \in UpdatesPending : o.arg <= 100)
    /\ [][C1_Step]_vars
\* a click at 95 asked for 100
C1_Witness ==
    /\ CourseRendered
    /\ progress = 95
    /\ \E o \in UpdatesPending : o.live /\ o.arg = 100

\* C2: a dashboard mounted for a user without a session has issued no read of
\* courses or enrollments.
C2_NoFetchWithoutSession ==
    (route.path = "/dashboard" /\ ~session) =>
        \A o \in Pending : ~(o.kind = "fetchData" /\ o.live)

\* C3: when fetchData settles, the loading flag of its page is cleared whatever the
\* outcome; when the courses read succeeded and the enrollments read failed, an
\* error notification is shown and neither list is changed.
C3_Step ==
    \A op \in Pending : fetchData(op) =>
        /\ op.live => loading' = FALSE
        /\ (op.res = "error" /\ toast'.description # CoursesError) =>
             /\ toast' = Toast("Error", EnrollmentsError)
             /\ courses' = courses
             /\ enrollments' = enrollments
C3_FailedFetch == [][C3_Step]_vars
\* the first fetch failed on the enrollments read alone: lists still empty, loading cleared
C3_Witness ==
    /\ route.path = "/dashboard"
    /\ toast = Toast("Error", EnrollmentsError)
    /\ ~loading
    /\ courses = <<>>
    /\ enrollments = <<>>

\* C4: when the course read of fetchCourse is answered for an identifier that matches
\* no course row, the notification reads "Course not found", the router is on the
\* dashboard, course and progress are unset and no enrollment read is pending.
C4_Step ==
    \A op \in Pending :
        (fetchCourse_course(op) /\ op.id \notin CourseIds /\ toast'.description # CoursesError) =>
            /\ toast' = Toast("Error", "Course not found")
            /\ route'.path = "/dashboard"
            /\ course' = 0
            /\ progress' = 0
            /\ InFlight(ops', "fetchCourse", "enrollment") = InFlight(ops, "fetchCourse", "enrollment")
C4_CourseNotFound == [][C4_Step]_vars

\* round(100 * k / n), halves up, and 0 without sections
SpecProgress(k, n) == IF n = 0 THEN 0 ELSE (200 * k + n) \div (2 * n)
\* position of the first fetched enrollment row of a course, 0 if there is none
FirstRow(c) ==
    LET I == {i \in 1..Len(enrollments) : enrollments[i].course_id = c}
    IN  IF I = {} THEN 0 ELSE CHOOSE i \in I : \A j \in I : i <= j

C6_IsEnrolled ==
    /\ \A c \in UrlIds :
         isEnrolled(c) <=> (\E i \in 1..Len(enrollments) : enrollments[i].course_id = c)
    /\ DashboardRendered =>
         \A c \in Cards :
            /\ Card(c).button = "Enroll Now" <=> FirstRow(c) = 0
            /\ (Card(c).button = "Continue Learning" /\ Card(c).progress >= 0) <=> FirstRow(c) # 0
\* one card offers the enroll button while another shows the progress block
C6_Witness ==
    /\ DashboardRendered
    /\ \E c, d \in Cards :
         /\ Card(c).button = "Enroll Now"
         /\ Card(d).button = "Continue Learning"

\* C7: a handleEnroll invocation that obtained a session sends exactly one insert (and
\* inserts are sent by nothing else); the answered insert adds at most the one row
\* (course, default progress), and on success shows the confirmation and starts one
\* fetchData without touching the lists; the enrollments list changes only when a
\* fetchData of the mounted page settles with its result (or the page is left).
C7_Step ==
    /\ \A op \in Pending : handleEnroll_getSession(op) =>
         /\ dbEnroll' = dbEnroll
         /\ IF ops' = Remove(ops, op)
            THEN toast'.title = "Error"
            ELSE /\ session
                 /\ InFlight(ops', "handleEnroll", "insert")
                      = InFlight(ops, "handleEnroll", "insert") + 1
                 /\ Size(ops') = Size(ops)
    /\ InFlight(ops', "handleEnroll", "insert") > InFlight(ops, "handleEnroll", "insert") =>
         \E op \in Pending : handleEnroll_getSession(op)
    /\ dbEnroll' # dbEnroll /\ Len(dbEnroll') # Len(dbEnroll) =>
         \E op \in Pending :
            /\ op.kind = "handleEnroll" /\ op.stage = "insert"
            /\ dbEnroll' = Append(dbEnroll, Row(op.id, 0))
            /\ toast' = Toast("Success!", "Successfully enrolled in the course.")
            /\ ops' = Add(Remove(ops, op), FetchDataOp(op.live))
            /\ UNCHANGED <<courses, enrollments, loading, route>>
    /\ \A op \in Pending : handleEnroll_insert(op) =>
         /\ InFlight(ops', "handleEnroll", "insert")
              = InFlight(ops, "handleEnroll", "insert") - 1
         /\ UNCHANGED <<courses, enrollments, loading, route>>
    /\ enrollments' # enrollments =>
         \/ route' # route
         \/ \E op \in Pending : fetchData(op) /\ op.live /\ enrollments' = op.data
C7_EnrollRefetches == [][C7_Step]_vars
\* an enrollment succeeded and its refetch is pending; the list does not hold the row yet
C7_Witness ==
    /\ route.path = "/dashboard"
    /\ toast = Toast("Success!", "Successfully enrolled in the course.")
    /\ \E o \in Pending : o.kind = "fetchData" /\ o.live
    /\ Len(enrollments) < Len(dbEnroll)

\* C8: without a session, handleEnroll and updateProgress end at the session check
\* with an error notification and send no write; a write answered with an error ends
\* the handler with an error notification; in both cases courses, enrollments and
\* progress are unchanged and no fetch is started.
C8_Step ==
    \A op \in Pending :
        /\ (~session /\ (handleEnroll_getSession(op) \/ updateProgress_getSession(op))) =>
             /\ ops' = Remove(ops, op)
             /\ toast'.title = "Error"
             /\ UNCHANGED <<dbEnroll, dashState, courseState, route>>
        /\ (handleEnroll_insert(op) /\ dbEnroll' = dbEnroll) =>
             /\ ops' = Remove(ops, op)
             /\ toast' = Toast("Error", InsertError)
             /\ UNCHANGED <<dashState, courseState, route>>
        /\ (updateProgress(op) /\ op.res = "error") =>
             /\ ops' = Remove(ops, op)
             /\ toast' = Toast("Error", UpdateError)
             /\ UNCHANGED <<dbEnroll, dashState, courseState, route>>
C8_FailedMutation == [][C8_Step]_vars
\* an update was answered with an error: the notification shows it
C8_Witness ==
    /\ CourseRendered
    /\ toast = Toast("Error", UpdateError)
    /\ clicks > 0

\* C9: the landing page navigates at most once, and only when its session check
\* resolves: to the dashboard with a session, to the auth route without; a check
\* that is pending or was rejected leaves the router on the landing route.
C9_Step ==
    /\ \A op \in Pending : Index_checkUser(op) =>
         \/ /\ indexNavs' = indexNavs + 1
            /\ route'.path = IF session THEN "/dashboard" ELSE "/auth"
         \/ UNCHANGED <<route, indexNavs>>
    /\ (route.path = "/" /\ route' # route) =>
         /\ indexNavs' = indexNavs + 1
         /\ \E op \in Pending : op.kind = "Index.checkUser"
    /\ indexNavs' # indexNavs => route.path = "/" /\ route'.path # "/"
C9_State ==
    /\ indexNavs \in {0, 1}
    /\ route.path = "/" => indexNavs = 0
    /\ \A op \in Pending : op.kind = "Index.checkUser" =>
         /\ route.path = "/"
         /\ ENABLED (Index_checkUser(op) /\ indexNavs' = 1
                     /\ route'.path = IF session THEN "/dashboard" ELSE "/auth")
C9_LandingRedirect == []C9_State /\ [][C9_Step]_vars
\* the landing page sent a signed-in user to the dashboard
C9_Witness ==
    /\ indexNavs = 1
    /\ route.path = "/dashboard"
    /\ session

\* C10: on a rendered course page with no updateProgress pending, the displayed
\* progress is the progress stored for the course (0 when no row is stored), and
\* while the page stays open the displayed progress never decreases.
C10_State ==
    (CourseRendered /\ UpdatesPending = {}) =>
        LET R == filter(dbEnroll, route.id)
        IN  IF R = <<>> THEN progress = 0
            ELSE \A i \in 1..Len(R) : R[i].progress = progress
C10_Step == (CourseRendered /\ route' = route) => progress' >= progress
C10_DisplayedIsStored == []C10_State /\ [][C10_Step]_vars
====
